---- MODULE Spec2Model ----
(***************************************************************************)
(* Model of baur's task configuration composition: the include database   *)
(* (cfg.IncludeDB), the merge of includes into tasks and apps (Task.Merge, *)
(* App.Merge), the validators and the application loader (AppLoader.Load). *)
(*                                                                         *)
(* Go pointers to Task are modelled as references into a heap, so that two *)
(* slices holding the same *Task are visibly aliased.  Strings are TLA+    *)
(* strings, except glob paths of Files.paths, which are character          *)
(* sequences because FileInputs.Validate counts substrings in them.        *)
(* Errors are records; a ValidationError carries its ElementPath, whose    *)
(* segments are tuples (a format string followed by its arguments).        *)
(***************************************************************************)
EXTENDS Integers, Sequences, FiniteSets, TLC

VARIABLES db, heap, apps, pc, ret, loads, merges, adds, lastLoad

vars == <<db, heap, apps, pc, ret, loads, merges, adds, lastLoad>>

(***************************************************************************)
(* Bounds of the model.                                                    *)
(***************************************************************************)
MaxWalk == 2
MaxLoads == 1
MaxApps == 1
MaxMerges == 1
MaxAdds == 1
\* the longest list of paths, of output entries and of includes in an app file
MaxEntries == 2
\* the most Tasks an app file declares
MaxTasks == 2

(***************************************************************************)
(* Errors.                                                                 *)
(***************************************************************************)
NoErr == [kind |-> "nil"]

NilDeref == [kind |-> "panic", format |-> "invalid memory address or nil pointer dereference"]

StackOverflow == [kind |-> "fatal", format |-> "stack overflow"]

Errorf(format, args) == [kind |-> "error", format |-> format, args |-> args]

Wrapf(err, format, args) == [kind |-> "wrapped", format |-> format, args |-> args, cause |-> err]

ValidationError(path, msg) == [kind |-> "ValidationError", ElementPath |-> path, Message |-> msg]

IsErr(e) == e.kind # "nil"

PrependValidationErrorPath(err, seg) ==
    IF err.kind = "ValidationError"
    THEN [err EXCEPT !.ElementPath = <<seg>> \o @]
    ELSE err

\* if err != nil { return err }; otherwise the rest of the function
OrElse(err, rest) == IF IsErr(err) THEN err ELSE rest

\* the first error of a sequence of results, in order (fail fast)
FirstError(errs) ==
    IF \E i \in DOMAIN errs : IsErr(errs[i])
    THEN errs[CHOOSE i \in DOMAIN errs : IsErr(errs[i]) /\ \A j \in 1..(i-1) : ~IsErr(errs[j])]
    ELSE NoErr

(***************************************************************************)
(* Values of the configuration structs.                                    *)
(***************************************************************************)
Nil == [nil |-> TRUE]

Input(files, gitfiles, gopaths, goenv) ==
    [Files |-> [Paths |-> files],
     GitFiles |-> [Paths |-> gitfiles],
     GolangSources |-> [Environment |-> goenv, Paths |-> gopaths]]

S3Upload(bucket, destfile) == [Bucket |-> bucket, DestFile |-> destfile]

FileOutput(path, copypath, s3) == [Path |-> path, FileCopy |-> [Path |-> copypath], S3Upload |-> s3]

DockerImageOutput(idfile, repository, tag) ==
    [IDFile |-> idfile, RegistryUpload |-> [Repository |-> repository, Tag |-> tag]]

Output(dockerimages, files) == [DockerImage |-> dockerimages, File |-> files]

Task(name, command, includes, input, output) ==
    [Name |-> name, Command |-> command, Includes |-> includes, Input |-> input, Output |-> output]

\* strings.Count(path, "**"): the number of non-overlapping occurrences
RECURSIVE StringsCount(_, _)
StringsCount(path, i) ==
    IF i + 1 > Len(path) THEN 0
    ELSE IF path[i] = "*" /\ path[i + 1] = "*" THEN 1 + StringsCount(path, i + 2)
    ELSE StringsCount(path, i + 1)

(***************************************************************************)
(* Validators (fail fast, in the order of the source).                     *)
(***************************************************************************)
\* variant: up to two '**' are accepted
FileInputsValidateAllowTwo(f) ==
    FirstError([i \in DOMAIN f.Paths |->
        IF Len(f.Paths[i]) = 0
        THEN ValidationError(<< <<"path">> >>, <<"can not be empty">>)
        ELSE IF StringsCount(f.Paths[i], 1) > 2
        THEN ValidationError(<< <<"path">> >>, <<"'**' can only appear one time in a path">>)
        ELSE NoErr])

FileInputsValidate(f) ==
    FirstError([i \in DOMAIN f.Paths |->
        IF Len(f.Paths[i]) = 0
        THEN ValidationError(<< <<"path">> >>, <<"can not be empty">>)
        ELSE IF StringsCount(f.Paths[i], 1) > 1
        THEN ValidationError(<< <<"path">> >>, <<"'**' can only appear one time in a path">>)
        ELSE NoErr])

GolangSourcesValidate(g) ==
    IF Len(g.Environment) # 0 /\ Len(g.Paths) = 0
    THEN ValidationError(<< <<"paths">> >>, <<"must be set if environment is set">>)
    ELSE FirstError([i \in DOMAIN g.Paths |->
        IF g.Paths[i] = ""
        THEN ValidationError(<< <<"paths">> >>, <<"empty string is an invalid path">>)
        ELSE NoErr])

InputValidate(i) ==
    OrElse(PrependValidationErrorPath(FileInputsValidate(i.Files), <<"Files">>),
           PrependValidationErrorPath(GolangSourcesValidate(i.GolangSources), <<"GolangSources">>))

S3UploadIsEmpty(s) == s.Bucket = "" /\ s.DestFile = ""

\* variant: only dest_file is required
S3UploadValidateDestOnly(s) ==
    IF S3UploadIsEmpty(s) THEN NoErr
    ELSE IF s.DestFile = "" THEN ValidationError(<< <<"destfile">> >>, <<"can not be empty">>)
    ELSE NoErr

S3UploadValidate(s) ==
    IF S3UploadIsEmpty(s) THEN NoErr
    ELSE IF s.DestFile = "" THEN ValidationError(<< <<"destfile">> >>, <<"can not be empty">>)
    ELSE IF s.Bucket = "" THEN ValidationError(<< <<"bucket">> >>, <<"can not be empty">>)
    ELSE NoErr

FileOutputValidate(f) ==
    IF f.Path = "" THEN ValidationError(<< <<"path">> >>, <<"can not be empty">>)
    ELSE S3UploadValidate(f.S3Upload)

DockerImageRegistryUploadValidate(d) ==
    IF d.Repository = "" THEN ValidationError(<< <<"repository">> >>, <<"can not be empty">>)
    ELSE IF d.Tag = "" THEN ValidationError(<< <<"tag">> >>, <<"can not be empty">>)
    ELSE NoErr

DockerImageOutputValidate(d) ==
    IF d.IDFile = "" THEN ValidationError(<< <<"idfile">> >>, <<"can not be empty">>)
    ELSE PrependValidationErrorPath(DockerImageRegistryUploadValidate(d.RegistryUpload), <<"RegistryUpload">>)

OutputValidate(o) ==
    OrElse(PrependValidationErrorPath(
               FirstError([i \in DOMAIN o.File |-> FileOutputValidate(o.File[i])]), <<"File">>),
           PrependValidationErrorPath(
               FirstError([i \in DOMAIN o.DockerImage |-> DockerImageOutputValidate(o.DockerImage[i])]),
               <<"DockerImage">>))

\* variant: a Task without a command is not checked any further
TaskValidateSkipsEmptyCommand(t) ==
    IF t.Command = "" THEN NoErr
    ELSE IF t.Name # "build" THEN ValidationError(<< <<"name">> >>, <<"name must be 'build'">>)
    ELSE IF t.Input = Nil THEN ValidationError(<< <<"Input">> >>, <<"section is empty">>)
    ELSE OrElse(PrependValidationErrorPath(InputValidate(t.Input), <<"Input">>),
                IF t.Output = Nil THEN ValidationError(<< <<"Output">> >>, <<"section is empty">>)
                ELSE PrependValidationErrorPath(OutputValidate(t.Output), <<"Output">>))

\* t is a Task value (the object a *Task points to)
TaskValidate(t) ==
    IF t.Command = "" THEN ValidationError(<< <<"command">> >>, <<"can not be empty">>)
    ELSE IF t.Name # "build" THEN ValidationError(<< <<"name">> >>, <<"name must be 'build'">>)
    ELSE IF t.Input = Nil THEN ValidationError(<< <<"Input">> >>, <<"section is empty">>)
    ELSE OrElse(PrependValidationErrorPath(InputValidate(t.Input), <<"Input">>),
                IF t.Output = Nil THEN ValidationError(<< <<"Output">> >>, <<"section is empty">>)
                ELSE PrependValidationErrorPath(OutputValidate(t.Output), <<"Output">>))

TaskSegment(t) == IF t.Name = "" THEN <<"Task">> ELSE <<"Task(name: %s)", t.Name>>

\* variant: only an empty Task list is rejected for its length
TasksValidateNonEmpty(tasks) ==
    IF Len(tasks) = 0
    THEN ValidationError(<<>>, <<"must contain exactly 1 Task definition, has %d", ToString(Len(tasks))>>)
    ELSE FirstError([i \in DOMAIN tasks |->
        IF \E j \in 1..(i-1) : tasks[j].Name = tasks[i].Name
        THEN ValidationError(<< <<"Task">>, <<"name">> >>,
                             <<"multiple tasks with name '%s' exist, task names must be unique", tasks[i].Name>>)
        ELSE PrependValidationErrorPath(TaskValidate(tasks[i]), TaskSegment(tasks[i]))])

\* tasks is a sequence of Task values, in the order of the slice
TasksValidate(tasks) ==
    IF Len(tasks) # 1
    THEN ValidationError(<<>>, <<"must contain exactly 1 Task definition, has %d", ToString(Len(tasks))>>)
    ELSE FirstError([i \in DOMAIN tasks |->
        IF \E j \in 1..(i-1) : tasks[j].Name = tasks[i].Name
        THEN ValidationError(<< <<"Task">>, <<"name">> >>,
                             <<"multiple tasks with name '%s' exist, task names must be unique", tasks[i].Name>>)
        ELSE PrependValidationErrorPath(TaskValidate(tasks[i]), TaskSegment(tasks[i]))])

\* a is an App whose Tasks are Task values
AppValidate(a) ==
    IF a.Name = "" THEN ValidationError(<< <<"name">> >>, <<"can not be empty">>)
    ELSE PrependValidationErrorPath(TasksValidate(a.Tasks), <<"Tasks">>)

(***************************************************************************)
(* Merging: every field is a list, the other one's entries are appended.   *)
(***************************************************************************)
\* variant: the other one's entries are put in front
FileInputsMergePrepend(f, other) == [f EXCEPT !.Paths = other.Paths \o @]

FileInputsMerge(f, other) == [f EXCEPT !.Paths = @ \o other.Paths]

GitFileInputsMerge(g, other) == [g EXCEPT !.Paths = @ \o other.Paths]

\* variant: only the environment of the other one is appended
GolangSourcesMergeEnvironmentOnly(g, other) == [g EXCEPT !.Environment = @ \o other.Environment]

GolangSourcesMerge(g, other) ==
    [g EXCEPT !.Paths = @ \o other.Paths, !.Environment = @ \o other.Environment]

InputMerge(i, other) ==
    [Files |-> FileInputsMerge(i.Files, other.Files),
     GitFiles |-> GitFileInputsMerge(i.GitFiles, other.GitFiles),
     GolangSources |-> GolangSourcesMerge(i.GolangSources, other.GolangSources)]

OutputMerge(o, other) ==
    [DockerImage |-> o.DockerImage \o other.DockerImage,
     File |-> o.File \o other.File]

ReferenceError(includeID) == Errorf("could not find include with id '%s'", <<includeID>>)

\* Task.Merge from the i-th include on; t is the Task value, mutated in place.
\* A nil receiver (t.Input, t.Output) or a nil include section is dereferenced:
\* the run-time panic leaves the task as the earlier includes made it.
RECURSIVE TaskMergeFrom(_, _, _)
TaskMergeFrom(t, d, i) ==
    IF i > Len(t.Includes) THEN [task |-> t, err |-> NoErr]
    ELSE LET includeID == t.Includes[i] IN
         IF includeID \in DOMAIN d.Inputs
         THEN IF t.Input = Nil \/ d.Inputs[includeID].Input = Nil
              THEN [task |-> t, err |-> NilDeref]
              ELSE TaskMergeFrom([t EXCEPT !.Input = InputMerge(@, d.Inputs[includeID].Input)], d, i + 1)
         ELSE IF includeID \in DOMAIN d.Outputs
         THEN IF t.Output = Nil \/ d.Outputs[includeID].Output = Nil
              THEN [task |-> t, err |-> NilDeref]
              ELSE TaskMergeFrom([t EXCEPT !.Output = OutputMerge(@, d.Outputs[includeID].Output)], d, i + 1)
         ELSE [task |-> t, err |-> ReferenceError(includeID)]

TaskMerge(t, d) == TaskMergeFrom(t, d, 1)

\* variant: the Tasks of a fragment are put in front of the App's Tasks
RECURSIVE AppMergeFromPrepend(_, _, _)
AppMergeFromPrepend(a, d, i) ==
    IF i > Len(a.Includes) THEN [app |-> a, err |-> NoErr]
    ELSE LET includeID == a.Includes[i] IN
         IF includeID \notin DOMAIN d.Tasks
         THEN [app |-> a, err |-> ReferenceError(includeID)]
         ELSE AppMergeFromPrepend([a EXCEPT !.Tasks = d.Tasks[includeID].Tasks \o @], d, i + 1)

\* App.Merge from the i-th include on; a.Tasks holds references (*Task)
RECURSIVE AppMergeFrom(_, _, _)
AppMergeFrom(a, d, i) ==
    IF i > Len(a.Includes) THEN [app |-> a, err |-> NoErr]
    ELSE LET includeID == a.Includes[i] IN
         IF includeID \notin DOMAIN d.Tasks
         THEN [app |-> a, err |-> ReferenceError(includeID)]
         ELSE AppMergeFrom([a EXCEPT !.Tasks = @ \o d.Tasks[includeID].Tasks], d, i + 1)

AppMerge(a, d) == AppMergeFrom(a, d, 1)

(***************************************************************************)
(* Include files: validation of the fragments.                             *)
(***************************************************************************)
InputIncludeValidate(in) ==
    IF in.ID = "" THEN ValidationError(<< <<"id">> >>, <<"can not be empty">>)
    ELSE IF in.Input = Nil THEN ValidationError(<< <<"Input">> >>, <<"no input is defined">>)
    ELSE PrependValidationErrorPath(InputValidate(in.Input), <<"Input">>)

\* after its two checks the method calls itself on the same receiver
\* (out.Validate(), not out.Output.Validate()): the recursion never ends and
\* the Go runtime aborts the process when the stack limit is exceeded
OutputIncludeValidate(out) ==
    IF out.ID = "" THEN ValidationError(<< <<"id">> >>, <<"can not be empty">>)
    ELSE IF out.Output = Nil THEN ValidationError(<< <<"Output">> >>, <<"no output is defined">>)
    ELSE StackOverflow

\* tasks.Tasks holds Task values here
TasksIncludeValidate(tasks) ==
    IF tasks.ID = "" THEN ValidationError(<< <<"id">> >>, <<"can not be empty">>)
    ELSE IF Len(tasks.Tasks) = 0
    THEN ValidationError(<< <<"Task(id:%s)", tasks.ID>> >>, <<"no output is defined">>)
    ELSE FirstError([i \in DOMAIN tasks.Tasks |->
        PrependValidationErrorPath(TaskValidate(tasks.Tasks[i]), TaskSegment(tasks.Tasks[i]))])

FragmentSegment(kind, id) == IF id # "" THEN <<kind, "(ID:%s)", id>> ELSE <<kind>>

\* incl.Tasks[i].Tasks holds Task values here
IncludeValidate(incl) ==
    LET ierr == FirstError([i \in DOMAIN incl.Inputs |->
                    PrependValidationErrorPath(InputIncludeValidate(incl.Inputs[i]),
                                               FragmentSegment("Inputs", incl.Inputs[i].ID))])
        oerr == FirstError([i \in DOMAIN incl.Outputs |->
                    PrependValidationErrorPath(OutputIncludeValidate(incl.Outputs[i]),
                                               FragmentSegment("Outputs", incl.Outputs[i].ID))])
        terr == FirstError([i \in DOMAIN incl.Tasks |->
                    OrElse(PrependValidationErrorPath(TasksIncludeValidate(incl.Tasks[i]),
                                                      FragmentSegment("Tasks", incl.Tasks[i].ID)),
                           IF Len(incl.Inputs) = 0 /\ Len(incl.Outputs) = 0 /\ Len(incl.Tasks) = 0
                           THEN ValidationError(<<>>, <<"the include does not contain any definition, either an Input, Output or Task must be defined">>)
                           ELSE NoErr)])
    IN OrElse(ierr, OrElse(oerr, terr))

(***************************************************************************)
(* The include database.                                                   *)
(***************************************************************************)
NewIncludeDB == [Inputs |-> <<>>, Outputs |-> <<>>, Tasks |-> <<>>]

MapPut(m, k, v) == [x \in (DOMAIN m) \cup {k} |-> IF x = k THEN v ELSE m[x]]

InputIncludeExist(d, id) == id \in DOMAIN d.Inputs

OutputIncludeExist(d, id) == id \in DOMAIN d.Outputs

DuplicateIDError(id) ==
    Errorf("multiple input/output includes with id '%s' are defined, include/output ids must be unique", <<id>>)

DuplicateTasksIDError(id) ==
    Errorf("multiple tasks includes with id '%s' are defined, include ids must be unique", <<id>>)

RECURSIVE AddInputs(_, _, _)
AddInputs(d, inputs, i) ==
    IF i > Len(inputs) THEN [db |-> d, err |-> NoErr]
    ELSE IF InputIncludeExist(d, inputs[i].ID) \/ OutputIncludeExist(d, inputs[i].ID)
    THEN [db |-> d, err |-> DuplicateIDError(inputs[i].ID)]
    ELSE AddInputs([d EXCEPT !.Inputs = MapPut(@, inputs[i].ID, inputs[i])], inputs, i + 1)

\* variant: an Output fragment is only checked against the Outputs map
RECURSIVE AddOutputsOwnMapOnly(_, _, _)
AddOutputsOwnMapOnly(d, outputs, i) ==
    IF i > Len(outputs) THEN [db |-> d, err |-> NoErr]
    ELSE IF OutputIncludeExist(d, outputs[i].ID)
    THEN [db |-> d, err |-> DuplicateIDError(outputs[i].ID)]
    ELSE AddOutputsOwnMapOnly([d EXCEPT !.Outputs = MapPut(@, outputs[i].ID, outputs[i])], outputs, i + 1)

RECURSIVE AddOutputs(_, _, _)
AddOutputs(d, outputs, i) ==
    IF i > Len(outputs) THEN [db |-> d, err |-> NoErr]
    ELSE IF InputIncludeExist(d, outputs[i].ID) \/ OutputIncludeExist(d, outputs[i].ID)
    THEN [db |-> d, err |-> DuplicateIDError(outputs[i].ID)]
    ELSE AddOutputs([d EXCEPT !.Outputs = MapPut(@, outputs[i].ID, outputs[i])], outputs, i + 1)

RECURSIVE AddTasks(_, _, _)
AddTasks(d, tasks, i) ==
    IF i > Len(tasks) THEN [db |-> d, err |-> NoErr]
    ELSE IF tasks[i].ID \in DOMAIN d.Tasks
    THEN [db |-> d, err |-> DuplicateTasksIDError(tasks[i].ID)]
    ELSE AddTasks([d EXCEPT !.Tasks = MapPut(@, tasks[i].ID, tasks[i])], tasks, i + 1)

\* IncludeDB.add: the maps are written fragment by fragment, up to the first collision
add(d, include) ==
    LET r1 == AddInputs(d, include.Inputs, 1) IN
    IF IsErr(r1.err) THEN r1
    ELSE LET r2 == AddOutputs(r1.db, include.Outputs, 1) IN
         IF IsErr(r2.err) THEN r2
         ELSE AddTasks(r2.db, include.Tasks, 1)

(***************************************************************************)
(* Parsing: the Task values of a file become new objects on the heap.     *)
(***************************************************************************)
ParseFail == [parse |-> "error"]

RECURSIVE GroupTasks(_, _)
GroupTasks(groups, k) ==
    IF k > Len(groups) THEN <<>> ELSE groups[k].Tasks \o GroupTasks(groups, k + 1)

RECURSIVE GroupOffset(_, _)
GroupOffset(groups, k) ==
    IF k <= 1 THEN 0 ELSE GroupOffset(groups, k - 1) + Len(groups[k - 1].Tasks)

\* the heap maps the addresses in use to Task values
RECURSIVE NextFree(_, _)
NextFree(h, r) == IF r \notin DOMAIN h THEN r ELSE NextFree(h, r + 1)

\* new(Task) for every value: the lowest free addresses are taken
RECURSIVE Alloc(_, _, _)
Alloc(h, values, i) ==
    IF i > Len(values) THEN [heap |-> h, refs |-> <<>>]
    ELSE LET r == NextFree(h, 1)
             rest == Alloc(MapPut(h, r, values[i]), values, i + 1)
         IN [heap |-> rest.heap, refs |-> <<r>> \o rest.refs]

\* the addresses reachable from the database d and the loaded apps as
Reachable(d, as) ==
    UNION {{d.Tasks[id].Tasks[i] : i \in DOMAIN d.Tasks[id].Tasks} : id \in DOMAIN d.Tasks} \cup
    UNION {{as[a].Tasks[i] : i \in DOMAIN as[a].Tasks} : a \in DOMAIN as}

\* objects that nothing refers to any more are collected
Collect(h, d, as) == [r \in (DOMAIN h) \cap Reachable(d, as) |-> h[r]]

\* content is the Include of the file with Task values; the result holds *Task
IncludeFromFile(content, h) ==
    LET a == Alloc(h, GroupTasks(content.Tasks, 1), 1) IN
    [heap |-> a.heap,
     include |-> [content EXCEPT !.Tasks =
         [k \in DOMAIN content.Tasks |->
             [ID |-> content.Tasks[k].ID,
              Tasks |-> [i \in DOMAIN content.Tasks[k].Tasks |->
                            a.refs[GroupOffset(content.Tasks, k) + i]]]]]]

\* Output.removeEmptySections: every element is copied to the new slices
OutputRemoveEmptySections(o) ==
    [DockerImage |-> SelectSeq(o.DockerImage, LAMBDA d : TRUE),
     File |-> SelectSeq(o.File, LAMBDA f : TRUE)]

AppFromFile(content, h) ==
    LET tasks == [i \in DOMAIN content.Tasks |->
                    IF content.Tasks[i].Output # Nil
                    THEN [content.Tasks[i] EXCEPT !.Output = OutputRemoveEmptySections(@)]
                    ELSE content.Tasks[i]]
        a == Alloc(h, tasks, 1)
    IN [heap |-> a.heap, app |-> [content EXCEPT !.Tasks = a.refs]]

\* the App with its Tasks dereferenced
AppValue(a, h) == [a EXCEPT !.Tasks = [i \in DOMAIN a.Tasks |-> h[a.Tasks[i]]]]

(***************************************************************************)
(* IncludeDB.Load: the walk calls walkFunc for every entry in discovery    *)
(* order, then the includes of the Tasks of all Task-group fragments are   *)
(* merged.  entries is what fs.WalkFiles finds below the directories.      *)
(***************************************************************************)
\* the tasks of the fragments in the order the map iteration yields them
RECURSIVE TasksInOrder(_, _, _)
TasksInOrder(d, order, k) ==
    IF k > Len(order) THEN <<>> ELSE d.Tasks[order[k]].Tasks \o TasksInOrder(d, order, k + 1)

\* task.Merge(db) for each task; the first error or panic ends the loop
RECURSIVE MergeTasks(_, _, _, _)
MergeTasks(d, h, refs, i) ==
    IF i > Len(refs) THEN [heap |-> h, err |-> NoErr]
    ELSE LET r == TaskMerge(h[refs[i]], d)
             h2 == [h EXCEPT ![refs[i]] = r.task]
         IN IF IsErr(r.err) THEN [heap |-> h2, err |-> r.err]
            ELSE MergeTasks(d, h2, refs, i + 1)

\* the elements of a finite set in some fixed order
RECURSIVE SetToSeq(_)
SetToSeq(S) ==
    IF S = {} THEN <<>> ELSE LET x == CHOOSE y \in S : TRUE IN <<x>> \o SetToSeq(S \ {x})

\* variant: a single pass, the includes of the Tasks are merged as soon as
\* their file is registered
walkFuncMergeAtOnce(d, h, e) ==
    IF e.ext # ".toml" THEN [db |-> d, heap |-> h, err |-> NoErr]
    ELSE IF e.content = ParseFail
    THEN [db |-> d, heap |-> h,
          err |-> Wrapf(Errorf("toml: parse error", <<>>), "loading include file %q failed", <<e.name>>)]
    ELSE LET verr == IncludeValidate(e.content)
             parsed == IncludeFromFile(e.content, h)
             r == add(d, parsed.include)
             m == MergeTasks(r.db, parsed.heap, TasksInOrder(r.db, SetToSeq(DOMAIN r.db.Tasks), 1), 1)
         IN IF verr.kind = "fatal" THEN [db |-> d, heap |-> h, err |-> verr]
            ELSE IF IsErr(verr)
            THEN [db |-> d, heap |-> h,
                  err |-> Wrapf(verr, "validating include config %q failed", <<e.name>>)]
            ELSE IF IsErr(r.err) THEN [db |-> r.db, heap |-> parsed.heap, err |-> r.err]
            ELSE [db |-> r.db, heap |-> m.heap, err |-> m.err]

walkFunc(d, h, e) ==
    IF e.ext # ".toml" THEN [db |-> d, heap |-> h, err |-> NoErr]
    ELSE IF e.content = ParseFail
    THEN [db |-> d, heap |-> h,
          err |-> Wrapf(Errorf("toml: parse error", <<>>), "loading include file %q failed", <<e.name>>)]
    ELSE LET verr == IncludeValidate(e.content)
             parsed == IncludeFromFile(e.content, h)
             r == add(d, parsed.include)
         IN IF verr.kind = "fatal" THEN [db |-> d, heap |-> h, err |-> verr]
            ELSE IF IsErr(verr)
            THEN [db |-> d, heap |-> h,
                  err |-> Wrapf(verr, "validating include config %q failed", <<e.name>>)]
            ELSE [db |-> r.db, heap |-> parsed.heap, err |-> r.err]

\* fs.WalkFiles with SymlinksAreErrors: the first error ends the walk.  For a
\* directory below root the callback starts filepath.Walk(path, walkFunc), whose
\* first call of the callback is for path itself again: the recursion never
\* ends, the entries of the directory are never visited and the Go runtime
\* aborts the process when the stack limit is exceeded
RECURSIVE WalkFiles(_, _, _, _)
WalkFiles(d, h, entries, i) ==
    IF i > Len(entries) THEN [db |-> d, heap |-> h, err |-> NoErr]
    ELSE IF entries[i].symlink
    THEN [db |-> d, heap |-> h, err |-> Errorf("%q is a symlink", <<entries[i].name>>)]
    ELSE IF entries[i].dir
    THEN [db |-> d, heap |-> h, err |-> StackOverflow]
    ELSE LET r == walkFunc(d, h, entries[i]) IN
         IF IsErr(r.err) THEN r ELSE WalkFiles(r.db, r.heap, entries, i + 1)

\* the second pass of Load after the walk w; order is the iteration order of
\* the map db.Tasks
MergeIncludes(w, order) ==
    IF IsErr(w.err) THEN w
    ELSE LET m == MergeTasks(w.db, w.heap, TasksInOrder(w.db, order, 1), 1)
         IN [db |-> w.db, heap |-> m.heap, err |-> m.err]

IncludeDBLoad(d, h, entries, order) == MergeIncludes(WalkFiles(d, h, entries, 1), order)

Perms(S) == {p \in [1..Cardinality(S) -> S] : \A i, j \in 1..Cardinality(S) : i # j => p[i] # p[j]}

(***************************************************************************)
(* The files of the model: include files and app files with their parsed   *)
(* content.                                                                *)
(***************************************************************************)
MakefilePath == <<"M">>

GoGlob == <<"*", "*", "/", "g">>

CPath == <<"c">>

NoInput == Input(<<>>, <<>>, <<>>, <<>>)

NoOutput == Output(<<>>, <<>>)

ArtifactOutput == Output(<<>>, <<FileOutput("a.out", "/artifacts", S3Upload("", ""))>>)

ImageOutput == Output(<<DockerImageOutput("id", "repo", "tag")>>, <<>>)

BothOutput == Output(<<DockerImageOutput("id", "repo", "tag")>>, <<FileOutput("b.out", "", S3Upload("bucket", "dest"))>>)

BadS3Output == Output(<<>>, <<FileOutput("dist", "", S3Upload("", "dest"))>>)

IncludeFile(name, inputs, outputs, tasks) ==
    [name |-> name, ext |-> ".toml", symlink |-> FALSE, dir |-> FALSE,
     content |-> [Inputs |-> inputs, Outputs |-> outputs, Tasks |-> tasks]]

\* a symbolic link to an include file that defines the Input fragment 'l'
LinkFile ==
    [name |-> "link.toml", ext |-> ".toml", symlink |-> TRUE, dir |-> FALSE,
     content |-> [Inputs |-> << [ID |-> "l", Input |-> Input(<<CPath>>, <<>>, <<>>, <<>>)] >>,
                  Outputs |-> <<>>, Tasks |-> <<>>]]

\* the entries below the include directories
IncludeFiles ==
    { IncludeFile("a.toml", << [ID |-> "a", Input |-> Input(<<GoGlob>>, <<>>, <<"go">>, <<"GOFLAGS">>)] >>, <<>>, <<>>),
      IncludeFile("b.toml", <<>>, << [ID |-> "b", Output |-> BothOutput], [ID |-> "c", Output |-> ImageOutput] >>, <<>>),
      IncludeFile("ca.toml", << [ID |-> "c", Input |-> Input(<<CPath>>, <<CPath>>, <<>>, <<>>)],
                                [ID |-> "a", Input |-> Input(<<CPath>>, <<>>, <<>>, <<>>)] >>, <<>>, <<>>),
      IncludeFile("t.toml", <<>>, <<>>,
                  << [ID |-> "a", Tasks |-> << Task("build", "make", <<"a", "b">>,
                                                    Input(<<>>, <<MakefilePath>>, <<>>, <<>>), ArtifactOutput) >>] >>),
      IncludeFile("t2.toml", <<>>, <<>>,
                  << [ID |-> "t", Tasks |-> << Task("build", "make", <<"a">>,
                                                    Input(<<MakefilePath>>, <<>>, <<>>, <<>>), NoOutput) >>],
                     [ID |-> "a", Tasks |-> << Task("build", "cc", <<>>, NoInput, NoOutput) >>] >>),
      [name |-> "bad.toml", ext |-> ".toml", symlink |-> FALSE, dir |-> FALSE, content |-> ParseFail],
      LinkFile,
      [name |-> "sub", ext |-> "", symlink |-> FALSE, dir |-> TRUE, content |-> ParseFail,
       entries |-> {LinkFile}] }

IncludeFileNamed(name) == CHOOSE f \in IncludeFiles : f.name = name

\* the walks of at most MaxWalk entries, every entry discovered once
Walks ==
    {w \in UNION {[1..n -> IncludeFiles] : n \in 0..MaxWalk} :
        \A i, j \in DOMAIN w : i # j => w[i] # w[j]}

AppFile(name, appname, includes, tasks) ==
    [name |-> name, content |-> [Name |-> appname, Includes |-> includes, Tasks |-> tasks]]

AppFiles ==
    { AppFile("shared/.app.toml", "shared", <<"a">>, <<>>),
      AppFile("shop/.app.toml", "shop", <<>>,
              << Task("build", "make", <<"a", "b">>, Input(<<MakefilePath>>, <<>>, <<>>, <<>>), BadS3Output) >>),
      AppFile("empty/.app.toml", "", <<>>, <<>>),
      AppFile("bare/.app.toml", "bare", <<"t">>,
              << Task("build", "make", <<"a">>, Nil, Nil) >>),
      AppFile("missing/.app.toml", "missing", <<"a", "x">>, <<>>),
      [name |-> "broken/.app.toml", content |-> ParseFail] }

(***************************************************************************)
(* State machine.  ret is the last call with its argument and its result   *)
(* (for IncludeDB.Load the argument is given by the entries below the      *)
(* include directories in discovery order), lastLoad the database before   *)
(* and after the last IncludeDB.Load with its result.                      *)
(* A panic or a fatal runtime error ends the process (pc = "crashed").     *)
(***************************************************************************)
Ret(op, arg, err) == [op |-> op, arg |-> arg, err |-> err]

Crashes(err) == err.kind \in {"panic", "fatal"}

\* the database is populated before the first application is loaded: the
\* include directories are loaded first, then fragments are added directly
Populating == pc = "idle" /\ apps = <<>> /\ merges = 0 /\ ret.op \in {"NewIncludeDB", "IncludeDB.Load", "IncludeDB.add"}

Init ==
    /\ db = NewIncludeDB
    /\ heap = <<>>
    /\ apps = <<>>
    /\ pc = "idle"
    /\ ret = Ret("NewIncludeDB", "", NoErr)
    /\ loads = 0
    /\ merges = 0
    /\ adds = 0
    /\ lastLoad = [called |-> FALSE, before |-> NewIncludeDB, after |-> NewIncludeDB, err |-> NoErr]

\* db.Load(includeDirectory...)
Load ==
    /\ Populating
    /\ loads < MaxLoads
    /\ adds = 0
    /\ \E entries \in Walks :
         \E order \in Perms(DOMAIN WalkFiles(db, heap, entries, 1).db.Tasks) :
           \E r \in {IncludeDBLoad(db, heap, entries, order)} :
             /\ db' = r.db
             /\ heap' = Collect(r.heap, r.db, apps)
             /\ ret' = Ret("IncludeDB.Load", [i \in DOMAIN entries |-> entries[i].name], r.err)
             /\ pc' = IF Crashes(r.err) THEN "crashed" ELSE "idle"
             /\ lastLoad' = [called |-> TRUE, before |-> db, after |-> r.db, err |-> r.err]
    /\ loads' = loads + 1
    /\ UNCHANGED <<apps, merges, adds>>

\* db.add(include) with the Include of a parsed file
Add(file) ==
    /\ Populating
    /\ adds < MaxAdds
    /\ ~file.dir /\ ~file.symlink
    /\ file.content # ParseFail
    /\ LET parsed == IncludeFromFile(file.content, heap)
           r == add(db, parsed.include)
       IN /\ db' = r.db
          /\ heap' = Collect(parsed.heap, r.db, apps)
          /\ ret' = Ret("IncludeDB.add", file.name, r.err)
    /\ adds' = adds + 1
    /\ UNCHANGED <<apps, pc, loads, merges, lastLoad>>

\* (&AppLoader{IncludeDB: db}).Load(path): AppFromFile, then app.Merge
AppLoaderLoad(file) ==
    /\ pc = "idle"
    /\ Len(apps) < MaxApps
    /\ IF file.content = ParseFail
       THEN /\ ret' = Ret("AppLoader.Load", file.name, Errorf("toml: parse error", <<>>))
            /\ UNCHANGED <<heap, apps>>
       ELSE LET parsed == AppFromFile(file.content, heap)
                r == AppMerge(parsed.app, db)
            IN IF IsErr(r.err)
               THEN /\ ret' = Ret("AppLoader.Load", file.name, r.err)
                    /\ UNCHANGED <<heap, apps>>
               ELSE /\ ret' = Ret("AppLoader.Load", file.name, NoErr)
                    /\ heap' = Collect(parsed.heap, db, Append(apps, r.app))
                    /\ apps' = Append(apps, r.app)
    /\ UNCHANGED <<db, pc, loads, merges, adds, lastLoad>>

\* task.Merge(*db) for the k-th Task of the a-th loaded App
MergeTask(a, k) ==
    /\ pc = "idle"
    /\ merges < MaxMerges
    /\ LET ref == apps[a].Tasks[k]
           r == TaskMerge(heap[ref], db)
       IN /\ heap' = [heap EXCEPT ![ref] = r.task]
          /\ ret' = Ret("Task.Merge", ref, r.err)
          /\ pc' = IF Crashes(r.err) THEN "crashed" ELSE "idle"
    /\ merges' = merges + 1
    /\ UNCHANGED <<db, apps, loads, adds, lastLoad>>

\* app.Validate() for the a-th loaded App
ValidateApp(a) ==
    /\ pc = "idle"
    /\ ret' = Ret("App.Validate", a, AppValidate(AppValue(apps[a], heap)))
    /\ UNCHANGED <<db, heap, apps, pc, loads, merges, adds, lastLoad>>

Next ==
    \/ Load
    \/ \E file \in IncludeFiles : Add(file)
    \/ \E file \in AppFiles : AppLoaderLoad(file)
    \/ \E a \in DOMAIN apps : \E k \in DOMAIN apps[a].Tasks : MergeTask(a, k)
    \/ \E a \in DOMAIN apps : ValidateApp(a)

Spec == Init /\ [][Next]_vars

(***************************************************************************)
(* Second specification: one application configuration is loaded with     *)
(* AppLoader.Load and validated.  The database was loaded from a directory *)
(* with a.toml and tu.toml; the app file is drawn from CfgAppFiles, which  *)
(* varies one part of the configuration at a time.                         *)
(***************************************************************************)
SeqsUpTo(S, n) == UNION {[1..k -> S] : k \in 0..n}

TaskNames == {"build", "check", ""}

Commands == {"make", ""}

\* "a/**/b/**/c"
TwoGlobs == <<"a", "/", "*", "*", "/", "b", "/", "*", "*", "/", "c">>

\* "", "a", "**", "***" and "a/**/b/**/c"
GlobPaths == { <<>>, <<"a">>, <<"*", "*">>, <<"*", "*", "*">>, TwoGlobs }

CfgFileOutputs ==
    {FileOutput(path, copy, S3Upload(bucket, dest)) :
        path \in {"", "dist"}, copy \in {"", "/mnt"}, bucket \in {"", "bucket"}, dest \in {"", "dest"}}

CfgDockerImageOutputs ==
    {DockerImageOutput(idfile, repository, tag) :
        idfile \in {"", "id"}, repository \in {"", "repo"}, tag \in {"", "tag"}}

GoodInput == Input(<<MakefilePath>>, <<>>, <<>>, <<>>)

GoodOutput == Output(<<>>, <<FileOutput("dist", "/mnt", S3Upload("", ""))>>)

CfgTasks ==
    {Task(name, command, <<>>, GoodInput, GoodOutput) : name \in TaskNames, command \in Commands}
    \cup {Task("build", "make", <<>>, Input(paths, <<>>, <<>>, <<>>), GoodOutput) :
             paths \in SeqsUpTo(GlobPaths, MaxEntries)}
    \cup {Task("build", "make", <<>>, GoodInput, Output(<<>>, files)) :
             files \in SeqsUpTo(CfgFileOutputs, MaxEntries)}
    \cup {Task("build", "make", <<>>, GoodInput, Output(images, <<>>)) :
             images \in SeqsUpTo(CfgDockerImageOutputs, MaxEntries)}

\* "dbmigrations/*.sql", shortened to "*.sql"
SqlGlob == <<"*", ".", "s", "q", "l">>

exampleInput == Input(<<SqlGlob>>, <<MakefilePath>>, <<".">>, <<"GOFLAGS=-mod=vendor", "GO111MODULE=on">>)

exampleOutput ==
    Output(<<DockerImageOutput("$APPNAME-container.id", "my-company/$APPNAME", "$GITCOMMIT")>>,
           <<FileOutput("dist/$APPNAME.tar.xz", "/mnt/fileserver/build_artifacts/$APPNAME-$GITCOMMIT.tar.xz",
                        S3Upload("go-artifacts/", "$APPNAME-$GITCOMMIT.tar.xz"))>>)

ExampleApp(name) ==
    [Name |-> name, Includes |-> <<>>,
     Tasks |-> << Task("build", "make dist", <<>>, exampleInput, exampleOutput) >>]

\* the Task has the paths "*.c", "*.h" and "Makefile", shortened to "c" and "M"
ExampleInclude ==
    [Inputs |-> << [ID |-> "input.go", Input |-> exampleInput] >>,
     Outputs |-> << [ID |-> "output.go", Output |-> exampleOutput] >>,
     Tasks |-> << [ID |-> "task.cbuild",
                   Tasks |-> << Task("cbuild", "make", <<>>, Input(<<>>, <<CPath, MakefilePath>>, <<>>, <<>>),
                                     ArtifactOutput) >>] >>]

\* App.ToFile: what toml.Unmarshal reads from the file the encoder writes.
\* The fields tagged commented:"true" (every paths and environment list,
\* path, idfile, bucket, dest_file, repository, tag) are written as comment
\* lines: the tables and the elements of the arrays of tables are read back
\* with these fields empty
ToFile(app) ==
    [app EXCEPT !.Tasks = [k \in DOMAIN app.Tasks |->
        [app.Tasks[k] EXCEPT
            !.Input = IF @ = Nil THEN Nil ELSE NoInput,
            !.Output = IF @ = Nil THEN Nil
                       ELSE Output([i \in DOMAIN @.DockerImage |-> DockerImageOutput("", "", "")],
                                   [i \in DOMAIN @.File |-> FileOutput("", "", S3Upload("", ""))])]]]

\* the file is named by its content
CfgAppFile(content) == [name |-> <<".app.toml", content>>, content |-> content]

CfgAppFiles ==
    {CfgAppFile([Name |-> "shop", Includes |-> <<>>, Tasks |-> <<t>>]) : t \in CfgTasks}
    \cup {CfgAppFile(ToFile(ExampleApp("shop")))}
    \cup {CfgAppFile([Name |-> name, Includes |-> includes, Tasks |-> tasks]) :
             name \in {"shop", ""},
             includes \in SeqsUpTo({"t", "u", "x"}, MaxEntries),
             tasks \in SeqsUpTo({Task("build", "make", <<>>, GoodInput, GoodOutput),
                                 Task("check", "lint", <<>>, GoodInput, GoodOutput)}, MaxTasks)}

\* Task-groups 't' (two Tasks) and 'u' (one Task)
TuFile ==
    IncludeFile("tu.toml", <<>>, <<>>,
                << [ID |-> "t", Tasks |-> << Task("build", "make", <<"a">>, GoodInput, GoodOutput),
                                             Task("build", "cc", <<>>, GoodInput, GoodOutput) >>],
                   [ID |-> "u", Tasks |-> << Task("build", "go", <<>>, GoodInput, GoodOutput) >>] >>)

CfgEntries == <<IncludeFileNamed("a.toml"), TuFile>>

CfgStore == IncludeDBLoad(NewIncludeDB, <<>>, CfgEntries, <<"t", "u">>)

InitCfg ==
    /\ db = CfgStore.db
    /\ heap = CfgStore.heap
    /\ apps = <<>>
    /\ pc = "idle"
    /\ ret = Ret("IncludeDB.Load", [i \in DOMAIN CfgEntries |-> CfgEntries[i].name], CfgStore.err)
    /\ loads = 1
    /\ merges = 0
    /\ adds = 0
    /\ lastLoad = [called |-> TRUE, before |-> NewIncludeDB, after |-> CfgStore.db, err |-> CfgStore.err]

\* the one application of the run is loaded
CfgLoad(file) ==
    /\ ret.op = "IncludeDB.Load"
    /\ AppLoaderLoad(file)

\* ExampleApp(name).Validate()
ExampleAppValidate(name) ==
    /\ ret.op = "IncludeDB.Load"
    /\ ret' = Ret("ExampleApp.Validate", name, AppValidate(ExampleApp(name)))
    /\ UNCHANGED <<db, heap, apps, pc, loads, merges, adds, lastLoad>>

\* ExampleInclude().Validate()
ExampleIncludeValidate ==
    /\ ret.op = "IncludeDB.Load"
    /\ ret' = Ret("ExampleInclude.Validate", "", IncludeValidate(ExampleInclude))
    /\ pc' = IF Crashes(ret'.err) THEN "crashed" ELSE "idle"
    /\ UNCHANGED <<db, heap, apps, loads, merges, adds, lastLoad>>

NextCfg ==
    \/ \E file \in CfgAppFiles : CfgLoad(file)
    \/ \E name \in {"shop", "baur"} : ExampleAppValidate(name)
    \/ ExampleIncludeValidate
    \/ \E a \in DOMAIN apps : ValidateApp(a)

SpecCfg == InitCfg /\ [][NextCfg]_vars

(***************************************************************************)
(* Helpers of the properties.                                              *)
(***************************************************************************)
RECURSIVE Flatten(_)
Flatten(ss) == IF ss = <<>> THEN <<>> ELSE Head(ss) \o Flatten(Tail(ss))

Range(f) == {f[x] : x \in DOMAIN f}

AppFileNamed(name) == CHOOSE f \in AppFiles : f.name = name

\* the *Task held by the Task-group fragments of the database d
StoreRefs(d) == UNION {Range(d.Tasks[id].Tasks) : id \in DOMAIN d.Tasks}

Returned(op) == ret.op = op /\ ~IsErr(ret.err)

\* the maps of the database d with the Tasks of the Task-group fragments dereferenced
StoreValue(d, h) ==
    [Inputs |-> d.Inputs, Outputs |-> d.Outputs,
     Tasks |-> [id \in DOMAIN d.Tasks |->
                  [ID |-> d.Tasks[id].ID,
                   Tasks |-> [i \in DOMAIN d.Tasks[id].Tasks |-> h[d.Tasks[id].Tasks[i]]]]]]

C2_FailedAddLeavesMaps ==
    [][(ret'.op = "IncludeDB.add" /\ IsErr(ret'.err)) => db' = db]_vars

(***************************************************************************)
(* C3: after IncludeDB.Load has returned an error, an App load with the    *)
(* same database cannot resolve a fragment registered during that Load.    *)
(***************************************************************************)
C3_FailedLoadNotObservable ==
    (lastLoad.called /\ IsErr(lastLoad.err) /\ Returned("AppLoader.Load")) =>
        \A id \in Range(AppFileNamed(ret.arg).content.Includes) :
            id \notin (DOMAIN lastLoad.after.Tasks) \ (DOMAIN lastLoad.before.Tasks)

C5_ReferenceErrorNamesTask ==
    (ret.op = "Task.Merge" /\ ret.err.kind = "error") =>
        /\ \E i \in DOMAIN heap[ret.arg].Includes :
              /\ heap[ret.arg].Includes[i] \notin (DOMAIN db.Inputs) \cup (DOMAIN db.Outputs)
              /\ heap[ret.arg].Includes[i] \in Range(ret.err.args)
        /\ heap[ret.arg].Name \in Range(ret.err.args)

(***************************************************************************)
(* C6: an App that AppLoader.Load returns without error passes             *)
(* App.Validate.                                                           *)
(***************************************************************************)
C6_LoadedAppIsValid ==
    Returned("AppLoader.Load") => ~IsErr(AppValidate(AppValue(apps[Len(apps)], heap)))

(***************************************************************************)
(* C7: an App that AppLoader.Load returns without error has no unresolved  *)
(* include: every include of every Task is a registered Input or Output    *)
(* fragment whose entries are in the Task, and the Tasks of every included *)
(* Task-group are in App.Tasks.                                            *)
(***************************************************************************)
C7_LoadedAppIsResolved ==
    Returned("AppLoader.Load") =>
        LET app == apps[Len(apps)] IN
        /\ \A i \in DOMAIN app.Includes :
              /\ app.Includes[i] \in DOMAIN db.Tasks
              /\ Range(db.Tasks[app.Includes[i]].Tasks) \subseteq Range(app.Tasks)
        /\ \A k \in DOMAIN app.Tasks :
              LET t == heap[app.Tasks[k]] IN
              \A i \in DOMAIN t.Includes :
                  LET id == t.Includes[i] IN
                  /\ id \in (DOMAIN db.Inputs) \cup (DOMAIN db.Outputs)
                  /\ id \in DOMAIN db.Inputs =>
                        /\ t.Input # Nil
                        /\ Range(db.Inputs[id].Input.Files.Paths) \subseteq Range(t.Input.Files.Paths)
                        /\ Range(db.Inputs[id].Input.GitFiles.Paths) \subseteq Range(t.Input.GitFiles.Paths)
                        /\ Range(db.Inputs[id].Input.GolangSources.Paths)
                               \subseteq Range(t.Input.GolangSources.Paths)
                        /\ Range(db.Inputs[id].Input.GolangSources.Environment)
                               \subseteq Range(t.Input.GolangSources.Environment)
                  /\ id \in DOMAIN db.Outputs =>
                        /\ t.Output # Nil
                        /\ Range(db.Outputs[id].Output.File) \subseteq Range(t.Output.File)
                        /\ Range(db.Outputs[id].Output.DockerImage) \subseteq Range(t.Output.DockerImage)

(***************************************************************************)
(* C8: a ValidationError that comes from a leaf upload validator, four     *)
(* levels below the Task list, has five path segments below the App's      *)
(* "Tasks" segment, one per validator; the bucket error of a file output   *)
(* of task 'build' has the path Task(name: build).Output.File.S3Upload.    *)
(* bucket.                                                                 *)
(***************************************************************************)
C8_ElementPathPerLayer ==
    (ret.op = "App.Validate" /\ ret.err.kind = "ValidationError" /\ Len(ret.err.ElementPath) > 1) =>
        LET path == Tail(ret.err.ElementPath)
            origin == path[Len(path)]
        IN /\ origin \in {<<"bucket">>, <<"destfile">>, <<"repository">>, <<"tag">>} => Len(path) = 5
           /\ origin = <<"bucket">> =>
                 path = << <<"Task(name: %s)", "build">>, <<"Output">>, <<"File">>, <<"S3Upload">>, <<"bucket">> >>

(***************************************************************************)
(* C9: once IncludeDB.Load has returned without error, App.Merge (in       *)
(* AppLoader.Load), Task.Merge and App.Validate of a loaded App write      *)
(* neither the maps of the database nor a Task of a Task-group fragment.   *)
(***************************************************************************)
C9_StoreReadOnly ==
    [][(lastLoad.called /\ ~IsErr(lastLoad.err)
            /\ ret'.op \in {"AppLoader.Load", "Task.Merge", "App.Validate"}) =>
        /\ db' = db
        /\ \A r \in StoreRefs(db) : heap'[r] = heap[r]]_vars

(***************************************************************************)
(* C10: no Task of a loaded App is the same object as a Task of the        *)
(* database or as a Task of another loaded App.                            *)
(***************************************************************************)
C10_TasksOwnedByApp ==
    \A a \in DOMAIN apps : \A k \in DOMAIN apps[a].Tasks :
        /\ apps[a].Tasks[k] \notin StoreRefs(db)
        /\ \A b \in (DOMAIN apps) \ {a} : apps[a].Tasks[k] \notin Range(apps[b].Tasks)

(***************************************************************************)
(* C11: IncludeDB.Load does not depend on the discovery order: a Load of   *)
(* the same entries in a fixed order, with a fixed iteration order of the  *)
(* Tasks map, succeeds iff this Load succeeds, and on success yields the   *)
(* same maps with the same resolved Tasks.  Every discovery order is a     *)
(* Load step from the same state, so any two orders agree.                 *)
(***************************************************************************)
C11_LoadOrderIndependent ==
    [][ret'.op = "IncludeDB.Load" =>
        LET entries == SetToSeq({IncludeFileNamed(n) : n \in Range(ret'.arg)})
            w == WalkFiles(db, heap, entries, 1)
            fixed == MergeIncludes(w, SetToSeq(DOMAIN w.db.Tasks))
        IN /\ IsErr(fixed.err) <=> IsErr(ret'.err)
           /\ ~IsErr(ret'.err) => StoreValue(fixed.db, fixed.heap) = StoreValue(db', heap')]_vars

\* Load succeeded with the Task-group file discovered before the file of the
\* Input fragment its Task includes, and the Task is resolved
C11_Witness ==
    /\ Returned("IncludeDB.Load")
    /\ ret.arg = <<"t2.toml", "a.toml">>
    /\ "t" \in DOMAIN db.Tasks
    /\ heap[db.Tasks["t"].Tasks[1]].Input.Files.Paths = <<MakefilePath, GoGlob>>

(***************************************************************************)
(* C12: in an App that AppLoader.Load returns, the Output of every Task    *)
(* declared in the file has no File entry and no DockerImage entry whose   *)
(* leaf fields are all empty, and has every other entry of the file, in    *)
(* the order of the file.                                                  *)
(***************************************************************************)
C12_EmptySectionsRemoved ==
    Returned("AppLoader.Load") =>
        LET content == ret.arg[2]
            FileHasLeaf(f) == f.Path # "" \/ f.FileCopy.Path # "" \/ f.S3Upload.Bucket # "" \/ f.S3Upload.DestFile # ""
            ImageHasLeaf(d) == d.IDFile # "" \/ d.RegistryUpload.Repository # "" \/ d.RegistryUpload.Tag # ""
        IN \A k \in DOMAIN content.Tasks :
              content.Tasks[k].Output # Nil =>
                 /\ heap[apps[1].Tasks[k]].Output.File = SelectSeq(content.Tasks[k].Output.File, FileHasLeaf)
                 /\ heap[apps[1].Tasks[k]].Output.DockerImage =
                        SelectSeq(content.Tasks[k].Output.DockerImage, ImageHasLeaf)

(***************************************************************************)
(* C13: App.Validate of an App with a non-empty name that declares two     *)
(* Tasks both named "build" fails with an error that names the duplicate   *)
(* task name "build".                                                      *)
(***************************************************************************)
C13_DuplicateNameIdentified ==
    (/\ ret.op = "App.Validate"
     /\ apps[ret.arg].Name # ""
     /\ apps[ret.arg].Includes = <<>>
     /\ Len(apps[ret.arg].Tasks) = 2
     /\ \A k \in 1..2 : heap[apps[ret.arg].Tasks[k]].Name = "build") =>
        /\ ret.err.kind = "ValidationError"
        /\ "build" \in Range(ret.err.Message)

C15_FilePathsValidated ==
    (/\ ret.op = "App.Validate"
     /\ apps[ret.arg].Name # ""
     /\ Len(apps[ret.arg].Tasks) = 1
     /\ heap[apps[ret.arg].Tasks[1]].Name = "build"
     /\ heap[apps[ret.arg].Tasks[1]].Command # ""
     /\ heap[apps[ret.arg].Tasks[1]].Output = GoodOutput) =>
        LET paths == heap[apps[ret.arg].Tasks[1]].Input.Files.Paths
            StarsAt(p, i) == i + 1 <= Len(p) /\ p[i] = "*" /\ p[i + 1] = "*"
            Invalid(p) == p = <<>> \/ \E i, j \in DOMAIN p : i + 2 <= j /\ StarsAt(p, i) /\ StarsAt(p, j)
        IN IF \E k \in DOMAIN paths : Invalid(paths[k])
           THEN /\ ret.err.kind = "ValidationError"
                /\ ret.err.ElementPath =
                      << <<"Tasks">>, <<"Task(name: %s)", "build">>, <<"Input">>, <<"Files">>, <<"path">> >>
           ELSE ~IsErr(ret.err)

\* a path with two '**' after a valid path was rejected
C15_Witness ==
    /\ ret.op = "App.Validate"
    /\ Len(apps[ret.arg].Tasks) = 1
    /\ heap[apps[ret.arg].Tasks[1]].Input.Files.Paths = << <<"*", "*", "*">>, TwoGlobs >>
    /\ ret.err.kind = "ValidationError"
    /\ ret.err.Message = <<"'**' can only appear one time in a path">>

(***************************************************************************)
(* C16: an App whose Task has an S3Upload or a registry upload with a      *)
(* non-empty field and an empty required field (bucket, dest_file;         *)
(* repository, tag) fails validation; when that entry is the first of its  *)
(* list and has its path or idfile, the error is the ValidationError of    *)
(* an empty required field of the destination.                             *)
(***************************************************************************)
C16_UploadsAllOrNothing ==
    (/\ ret.op = "App.Validate"
     /\ apps[ret.arg].Name # ""
     /\ Len(apps[ret.arg].Tasks) = 1
     /\ heap[apps[ret.arg].Tasks[1]].Name = "build"
     /\ heap[apps[ret.arg].Tasks[1]].Command # ""
     /\ heap[apps[ret.arg].Tasks[1]].Input = GoodInput
     /\ heap[apps[ret.arg].Tasks[1]].Output # Nil) =>
        LET out == heap[apps[ret.arg].Tasks[1]].Output
            PartS3(s) == (s.Bucket # "" \/ s.DestFile # "") /\ (s.Bucket = "" \/ s.DestFile = "")
            PartRegistry(r) == (r.Repository # "" \/ r.Tag # "") /\ (r.Repository = "" \/ r.Tag = "")
            origin == ret.err.ElementPath[Len(ret.err.ElementPath)]
        IN /\ (\E i \in DOMAIN out.File : PartS3(out.File[i].S3Upload)) => ret.err.kind = "ValidationError"
           /\ (\E i \in DOMAIN out.DockerImage : PartRegistry(out.DockerImage[i].RegistryUpload))
                 => ret.err.kind = "ValidationError"
           /\ (out.File # <<>> /\ out.File[1].Path # "" /\ PartS3(out.File[1].S3Upload))
                 => \/ origin = <<"bucket">> /\ out.File[1].S3Upload.Bucket = ""
                    \/ origin = <<"destfile">> /\ out.File[1].S3Upload.DestFile = ""
           /\ (/\ out.File = <<>>
               /\ out.DockerImage # <<>> /\ out.DockerImage[1].IDFile # ""
               /\ PartRegistry(out.DockerImage[1].RegistryUpload))
                 => \/ origin = <<"repository">> /\ out.DockerImage[1].RegistryUpload.Repository = ""
                    \/ origin = <<"tag">> /\ out.DockerImage[1].RegistryUpload.Tag = ""

\* an S3Upload with a bucket and no dest_file was rejected
C16_Witness ==
    /\ ret.op = "App.Validate"
    /\ Len(apps[ret.arg].Tasks) = 1
    /\ heap[apps[ret.arg].Tasks[1]].Output.File = <<FileOutput("dist", "", S3Upload("bucket", ""))>>
    /\ ret.err.kind = "ValidationError"
    /\ ret.err.ElementPath[Len(ret.err.ElementPath)] = <<"destfile">>

(***************************************************************************)
(* C17: when every include ID of the app file is a key of Tasks, the App   *)
(* that AppLoader.Load returns (AppFromFile, then App.Merge) has the Tasks *)
(* declared in the file at the front, in the order of the file, followed   *)
(* by the Tasks of each included fragment, in the order of the includes    *)
(* and of the fragment; otherwise the call fails with the reference error  *)
(* naming the first include ID that is no key of Tasks.                    *)
(***************************************************************************)
C17_AppMergeAppendsInOrder ==
    ret.op = "AppLoader.Load" =>
        LET content == ret.arg[2]
            inc == content.Includes
            own == Len(content.Tasks)
            Missing(i) == inc[i] \notin DOMAIN db.Tasks
        IN IF \E i \in DOMAIN inc : Missing(i)
           THEN /\ apps = <<>>
                /\ ret.err.kind = "error"
                /\ \E i \in DOMAIN inc :
                      /\ Missing(i) /\ \A j \in 1..(i - 1) : ~Missing(j)
                      /\ ret.err = ReferenceError(inc[i])
           ELSE /\ ~IsErr(ret.err)
                /\ [k \in 1..own |-> heap[apps[1].Tasks[k]]] = content.Tasks
                /\ SubSeq(apps[1].Tasks, own + 1, Len(apps[1].Tasks))
                      = Flatten([i \in DOMAIN inc |-> db.Tasks[inc[i]].Tasks])

\* two declared Tasks are followed by the Task of 'u' and the two Tasks of 't'
C17_Witness ==
    /\ Returned("AppLoader.Load")
    /\ apps[1].Includes = <<"u", "t">>
    /\ Len(ret.arg[2].Tasks) = 2
    /\ Len(apps[1].Tasks) = 5
    /\ heap[apps[1].Tasks[3]].Command = "go"
    /\ heap[apps[1].Tasks[5]].Command = "cc"

(***************************************************************************)
(* C18: ExampleApp(name) with a non-empty name passes App.Validate, the    *)
(* App that is read from the file ToFile wrote passes App.Validate, and    *)
(* ExampleInclude passes Include.Validate.                                 *)
(***************************************************************************)
C18_ExamplesAreValid ==
    /\ ret.op = "ExampleApp.Validate" => ~IsErr(ret.err)
    /\ ret.op = "ExampleInclude.Validate" => ~IsErr(ret.err)
    /\ (ret.op = "App.Validate" /\ AppValue(apps[ret.arg], heap) = ToFile(ExampleApp("shop"))) => ~IsErr(ret.err)

(***************************************************************************)
(* C19: App.Validate of an App with one well-formed Task (a command, a     *)
(* Files path, a File output with path and FileCopy path) succeeds when    *)
(* the Task is named "build" and otherwise fails with an error whose text  *)
(* contains "invalid task name".  Of the texts the validators produce,     *)
(* the one with this phrase is "invalid task name '%s', task name must be  *)
(* 'build'".                                                               *)
(***************************************************************************)
C19_InvalidTaskNameMessage ==
    (/\ ret.op = "App.Validate"
     /\ apps[ret.arg].Name # ""
     /\ Len(apps[ret.arg].Tasks) = 1
     /\ heap[apps[ret.arg].Tasks[1]].Command # ""
     /\ heap[apps[ret.arg].Tasks[1]].Input = GoodInput
     /\ heap[apps[ret.arg].Tasks[1]].Output = GoodOutput) =>
        IF heap[apps[ret.arg].Tasks[1]].Name = "build"
        THEN ~IsErr(ret.err)
        ELSE /\ ret.err.kind = "ValidationError"
             /\ ret.err.Message[1] = "invalid task name '%s', task name must be 'build'"

(***************************************************************************)
(* C20: when every entry that IncludeDB.Load finds below the include       *)
(* directories is a symbolic link or a directory with a symbolic link in   *)
(* it, Load returns an error, and the fragment 'l' of the file behind the  *)
(* link is not registered.                                                 *)
(***************************************************************************)
C20_SymlinkIsError ==
    [][(/\ ret'.op = "IncludeDB.Load"
        /\ ret'.arg # <<>>
        /\ \A i \in DOMAIN ret'.arg :
              LET e == IncludeFileNamed(ret'.arg[i])
              IN e.symlink \/ (e.dir /\ \E c \in e.entries : c.symlink)) =>
          /\ IsErr(ret'.err)
          /\ ~Crashes(ret'.err)
          /\ "l" \notin DOMAIN db'.Inputs]_vars

(***************************************************************************)
(* Third specification: include files.  Include.Validate is applied to an  *)
(* Include drawn from IncIncludes; or a directory with such a file is      *)
(* loaded with IncludeDB.Load; or an Include with the Input fragment 'a'   *)
(* and the Output fragment 'b' is registered with IncludeDB.add, an        *)
(* application with one Task is loaded and Task.Merge is called for it.    *)
(* A file is named by its content, a directory by its entries.             *)
(***************************************************************************)
GoEnvInput == Input(<<>>, <<>>, <<"go">>, <<"GOFLAGS">>)

\* the last two do not pass Input.Validate
IncInputs ==
    {NoInput, GoodInput, GoEnvInput, Input(<<TwoGlobs>>, <<>>, <<>>, <<>>), Input(<<>>, <<>>, <<>>, <<"GOFLAGS">>)}

\* the last one does not pass Output.Validate
IncOutputs == {NoOutput, GoodOutput, ImageOutput, BadS3Output}

\* the Tasks of the Task-group fragments
IncTasks ==
    {Task("build", "make", includes, input, output) :
        includes \in {<<>>, <<"a">>}, input \in {Nil, NoInput, GoodInput}, output \in {Nil, GoodOutput}}

EmptyInclude == [Inputs |-> <<>>, Outputs |-> <<>>, Tasks |-> <<>>]

\* the empty Include and the Includes with one fragment
IncIncludes ==
    {EmptyInclude}
    \cup {[EmptyInclude EXCEPT !.Inputs = <<[ID |-> id, Input |-> in]>>] :
             id \in {"", "a"}, in \in IncInputs \cup {Nil}}
    \cup {[EmptyInclude EXCEPT !.Outputs = <<[ID |-> id, Output |-> out]>>] :
             id \in {"", "b"}, out \in IncOutputs \cup {Nil}}
    \cup {[EmptyInclude EXCEPT !.Tasks = <<[ID |-> id, Tasks |-> tasks]>>] :
             id \in {"", "t"}, tasks \in SeqsUpTo(IncTasks, 1)}

IncFile(content) ==
    [name |-> <<"inc.toml", content>>, ext |-> ".toml", symlink |-> FALSE, dir |-> FALSE, content |-> content]

\* the file of the Input fragment 'a' with a glob, a Go path and a Go environment
AFile == IncFile(IncludeFileNamed("a.toml").content)

\* a directory below the include directory with one include file in it
IncDir ==
    [name |-> <<"inc", {IncFile([EmptyInclude EXCEPT !.Inputs = <<[ID |-> "i", Input |-> GoodInput]>>])}>>,
     ext |-> "", symlink |-> FALSE, dir |-> TRUE, content |-> ParseFail]

\* what the walk finds below the include directories
IncWalks ==
    {<<IncFile(c)>> : c \in IncIncludes}
    \cup {<<AFile, IncFile(c)>> : c \in {x \in IncIncludes : x.Tasks # <<>>}}
    \cup {<<IncFile(c), AFile>> : c \in {x \in IncIncludes : x.Tasks # <<>>}}
    \cup {<<IncDir>>, <<AFile, IncDir>>}

\* Includes with the Input fragment 'a' and the Output fragment 'b'
IncFragments ==
    {[EmptyInclude EXCEPT !.Inputs = <<[ID |-> "a", Input |-> in]>>,
                          !.Outputs = <<[ID |-> "b", Output |-> out]>>] :
        in \in IncInputs, out \in IncOutputs}

\* applications with one Task that includes 'a' and 'b'; 'x' is not registered
IncAppFiles ==
    {CfgAppFile([Name |-> "shop", Includes |-> <<>>,
                 Tasks |-> <<Task("build", "make", includes, input, output)>>]) :
        includes \in {<<"a", "b">>, <<"a", "x", "b">>},
        input \in IncInputs \cup {Nil}, output \in IncOutputs \cup {Nil}}

\* incl.Validate()
ValidateInclude(incl) ==
    /\ ret.op = "NewIncludeDB"
    /\ ret' = Ret("Include.Validate", incl, IncludeValidate(incl))
    /\ pc' = IF Crashes(ret'.err) THEN "crashed" ELSE "idle"
    /\ UNCHANGED <<db, heap, apps, loads, merges, adds, lastLoad>>

\* db.Load(includeDirectory...) where the walk finds entries
LoadDir(entries) ==
    /\ Populating
    /\ loads < MaxLoads
    /\ adds = 0
    /\ \E order \in Perms(DOMAIN WalkFiles(db, heap, entries, 1).db.Tasks) :
         \E r \in {IncludeDBLoad(db, heap, entries, order)} :
           /\ db' = r.db
           /\ heap' = Collect(r.heap, r.db, apps)
           /\ ret' = Ret("IncludeDB.Load", [i \in DOMAIN entries |-> entries[i].name], r.err)
           /\ pc' = IF Crashes(r.err) THEN "crashed" ELSE "idle"
           /\ lastLoad' = [called |-> TRUE, before |-> db, after |-> r.db, err |-> r.err]
    /\ loads' = loads + 1
    /\ UNCHANGED <<apps, merges, adds>>

\* db.add(include) on a database that no directory was loaded into
IncAdd(file) ==
    /\ loads = 0
    /\ Add(file)

\* the one application of the run is loaded after the fragments were added
IncAppLoad(file) ==
    /\ ret.op = "IncludeDB.add"
    /\ AppLoaderLoad(file)

NextInc ==
    \/ \E incl \in IncIncludes : ValidateInclude(incl)
    \/ \E entries \in IncWalks : LoadDir(entries)
    \/ \E incl \in IncFragments : IncAdd(IncFile(incl))
    \/ \E file \in IncAppFiles : IncAppLoad(file)
    \/ \E a \in DOMAIN apps : \E k \in DOMAIN apps[a].Tasks : MergeTask(a, k)

SpecInc == Init /\ [][NextInc]_vars

(***************************************************************************)
(* C21: IncludeDB.Load resolves the includes of the Tasks of a Task-group  *)
(* fragment before the Tasks are validated: a Load into an empty database  *)
(* succeeds when a Task-group file has a Task that is valid except that    *)
(* its Input comes only from its includes (no Input section of its own,    *)
(* every include a valid Input fragment of the walk) and every other file  *)
(* is valid; and after a Load that succeeded every Task of the database    *)
(* passes Task.Validate as it is, resolved.                                *)
(***************************************************************************)
C21_ResolvedBeforeValidated ==
    [][(/\ ret'.op = "IncludeDB.Load"
        /\ db = NewIncludeDB
        /\ \A i \in DOMAIN ret'.arg : ret'.arg[i][1] = "inc.toml") =>
        LET files == [i \in DOMAIN ret'.arg |-> ret'.arg[i][2]]
            inputs == {in.ID : in \in {x \in UNION {Range(files[i].Inputs) : i \in DOMAIN files} :
                                          ~IsErr(InputIncludeValidate(x))}}
            OnlyIncluded(t) ==
                /\ t.Name = "build" /\ t.Command # ""
                /\ t.Input = Nil
                /\ t.Includes # <<>> /\ Range(t.Includes) \subseteq inputs
                /\ t.Output # Nil /\ ~IsErr(OutputValidate(t.Output))
            TaskGroups(incl) ==
                /\ incl.Inputs = <<>> /\ incl.Outputs = <<>> /\ incl.Tasks # <<>>
                /\ \A k \in DOMAIN incl.Tasks :
                      /\ incl.Tasks[k].ID # "" /\ incl.Tasks[k].Tasks # <<>>
                      /\ \A j \in DOMAIN incl.Tasks[k].Tasks : OnlyIncluded(incl.Tasks[k].Tasks[j])
        IN /\ ~IsErr(ret'.err) => \A r \in StoreRefs(db') : ~IsErr(TaskValidate(heap'[r]))
           /\ (/\ \E i \in DOMAIN files : TaskGroups(files[i])
               /\ \A i \in DOMAIN files : TaskGroups(files[i]) \/ ~IsErr(IncludeValidate(files[i])))
                 => ~IsErr(ret'.err)]_vars

(***************************************************************************)
(* C22: fs.WalkFiles ends on a directory tree without symbolic links, with *)
(* or without subdirectories, and calls the callback once for every        *)
(* regular file below the root: a Load into an empty database of a tree    *)
(* whose include files are valid and define different IDs returns, reports *)
(* no duplicate ID, and when it succeeds every fragment of every file,     *)
(* those in subdirectories included, is registered.                        *)
(***************************************************************************)
C22_WalkVisitsEveryFileOnce ==
    [][(ret'.op = "IncludeDB.Load" /\ db = NewIncludeDB) =>
        LET FilesBelow(name) == IF name[1] = "inc.toml" THEN {name[2]} ELSE {f.content : f \in name[2]}
            files == UNION {FilesBelow(ret'.arg[i]) : i \in DOMAIN ret'.arg}
            IDs(incl) == {<<"Inputs", x.ID>> : x \in Range(incl.Inputs)}
                         \cup {<<"Outputs", x.ID>> : x \in Range(incl.Outputs)}
                         \cup {<<"Tasks", x.ID>> : x \in Range(incl.Tasks)}
        IN (/\ \A f \in files : ~IsErr(IncludeValidate(f))
            /\ \A f, g \in files : f # g => IDs(f) \cap IDs(g) = {}) =>
              /\ ~Crashes(ret'.err)
              /\ ~(ret'.err.kind = "error"
                   /\ ret'.err.format \in {DuplicateIDError("").format, DuplicateTasksIDError("").format})
              /\ ~IsErr(ret'.err) =>
                    \A f \in files : \A id \in IDs(f) : id[2] \in DOMAIN db'[id[1]]]_vars

(***************************************************************************)
(* C23: Include.Validate returns a ValidationError for an Include without  *)
(* any definition (no Input, no Output, no Task-group fragment) and for an *)
(* Include whose Task-group fragment has an empty ID or no Task.           *)
(***************************************************************************)
C23_EmptyIncludeRejected ==
    ret.op = "Include.Validate" =>
        /\ (ret.arg.Inputs = <<>> /\ ret.arg.Outputs = <<>> /\ ret.arg.Tasks = <<>>)
              => ret.err.kind = "ValidationError"
        /\ (ret.arg.Inputs = <<>> /\ ret.arg.Outputs = <<>>
            /\ \E k \in DOMAIN ret.arg.Tasks : ret.arg.Tasks[k].ID = "" \/ ret.arg.Tasks[k].Tasks = <<>>)
              => ret.err.kind = "ValidationError"

(***************************************************************************)
(* C24: Task.Validate, reached through App.Validate of an App with a name  *)
(* and one Task, rejects a Task with an empty command, whatever its name,  *)
(* Input and Output are, with a ValidationError located at the element     *)
(* 'command' of the Task; the validation never succeeds for such a Task.   *)
(***************************************************************************)
C24_EmptyCommandRejected ==
    (/\ ret.op = "App.Validate"
     /\ apps[ret.arg].Name # ""
     /\ Len(apps[ret.arg].Tasks) = 1
     /\ heap[apps[ret.arg].Tasks[1]].Command = "") =>
        /\ ret.err.kind = "ValidationError"
        /\ ret.err.ElementPath = << <<"Tasks">>, TaskSegment(heap[apps[ret.arg].Tasks[1]]), <<"command">> >>
        /\ ret.err.Message = <<"can not be empty">>

\* a Task named 'build' with a valid Input and Output and no command was rejected
C24_Witness ==
    /\ ret.op = "App.Validate"
    /\ Len(apps[ret.arg].Tasks) = 1
    /\ heap[apps[ret.arg].Tasks[1]] = Task("build", "", <<>>, GoodInput, GoodOutput)
    /\ ret.err.kind = "ValidationError"
    /\ ret.err.ElementPath[Len(ret.err.ElementPath)] = <<"command">>

(***************************************************************************)
(* Fourth specification: the search for the repository configuration.     *)
(* The directories are a chain below the root, the directory at depth k is *)
(* named Dir(k) and depth 0 is "/".  A path is absolute or relative and    *)
(* has a sequence of components; "." is the relative path without          *)
(* components.  fsys gives the working directory of the process (cwd, a    *)
(* depth), the depths of the directories that contain the file (has) and   *)
(* the call of os.Stat that fails with an I/O error (failAt, 0 for none).  *)
(***************************************************************************)
\* the deepest directory
MaxDepth == 2

\* the most components of a path that the operating system accepts
PathMax == 5

Up == <<"..">>

Dir(k) == <<"dir", k>>

RepositoryCfgFile == <<".baur.toml">>

Root == [abs |-> TRUE, comps |-> <<>>]

NoPath == [abs |-> FALSE, comps |-> <<>>]

\* the absolute path of the directory at depth d
DirPath(d) == [abs |-> TRUE, comps |-> [k \in 1..d |-> Dir(k)]]

\* path.Join(dir, elem) for a clean dir: the joined path is cleaned, which
\* removes a last component together with a following "..", keeps the root
\* for "/.." and keeps the ".." a relative path starts with
PathJoin(dir, elem) ==
    IF elem # Up THEN [dir EXCEPT !.comps = Append(@, elem)]
    ELSE IF dir.comps # <<>> /\ dir.comps[Len(dir.comps)] # Up
    THEN [dir EXCEPT !.comps = SubSeq(@, 1, Len(@) - 1)]
    ELSE IF dir.abs THEN dir
    ELSE [dir EXCEPT !.comps = Append(@, Up)]

\* the depth of the directory that the components lead to from the directory
\* at depth d, -1 if there is none; the parent of the root is the root
RECURSIVE Lookup(_, _, _)
Lookup(d, comps, i) ==
    IF i > Len(comps) THEN d
    ELSE IF comps[i] = Up THEN Lookup(IF d = 0 THEN 0 ELSE d - 1, comps, i + 1)
    ELSE IF d < MaxDepth /\ comps[i] = Dir(d + 1) THEN Lookup(d + 1, comps, i + 1)
    ELSE -1

\* the n-th call of os.Stat, for the path p of a file
Stat(fsys, p, n) ==
    IF Len(p.comps) > PathMax THEN "file name too long"
    ELSE IF n = fsys.failAt THEN "input/output error"
    ELSE IF Lookup(IF p.abs THEN 0 ELSE fsys.cwd, SubSeq(p.comps, 1, Len(p.comps) - 1), 1) \in fsys.has
    THEN "ok"
    ELSE "no such file or directory"

\* filepath.Abs(p): a relative path is joined to the working directory
RECURSIVE JoinAll(_, _, _)
JoinAll(dir, comps, i) ==
    IF i > Len(comps) THEN dir ELSE JoinAll(PathJoin(dir, comps[i]), comps, i + 1)

Abs(fsys, p) == IF p.abs THEN p ELSE JoinAll(DirPath(fsys.cwd), p.comps, 1)

ErrNotExist == Errorf("file does not exist", <<>>)

PathError(msg, p) == [kind |-> "PathError", format |-> msg, args |-> <<p>>]

\* the loop of FindFileInParentDirs from searchDir on, with the n-th os.Stat
RECURSIVE FindFileFrom(_, _, _, _)
FindFileFrom(fsys, searchDir, filename, n) ==
    LET p == PathJoin(searchDir, filename) IN
    IF Stat(fsys, p, n) = "ok" THEN [path |-> Abs(fsys, p), err |-> NoErr]
    ELSE IF Stat(fsys, p, n) # "no such file or directory"
    THEN [path |-> NoPath, err |-> PathError(Stat(fsys, p, n), p)]
    ELSE IF searchDir = Root THEN [path |-> NoPath, err |-> ErrNotExist]
    ELSE FindFileFrom(fsys, PathJoin(searchDir, Up), filename, n + 1)

FindFileInParentDirs(fsys, startPath, filename) == FindFileFrom(fsys, startPath, filename, 1)

FileSystems == [cwd : 0..MaxDepth, has : SUBSET (0..MaxDepth), failAt : 0..(MaxDepth + 2)]

\* the directories as absolute paths, ".", ".." and the subdirectory of the
\* working directory
StartPaths(fsys) ==
    {DirPath(d) : d \in 0..MaxDepth}
    \cup {NoPath, [abs |-> FALSE, comps |-> <<Up>>]}
    \cup {[abs |-> FALSE, comps |-> <<Dir(fsys.cwd + 1)>>] : d \in {x \in {fsys.cwd} : x < MaxDepth}}

\* FindRepositoryConfig(startPath); the argument is recorded with the file
\* system and the returned path
FindRepositoryConfig(fsys, startPath) ==
    /\ ret.op = "NewIncludeDB"
    /\ \E r \in {FindFileInParentDirs(fsys, startPath, RepositoryCfgFile)} :
         ret' = Ret("FindRepositoryConfig", [fsys |-> fsys, startPath |-> startPath, path |-> r.path], r.err)
    /\ UNCHANGED <<db, heap, apps, pc, loads, merges, adds, lastLoad>>

NextFs == \E fsys \in FileSystems : \E startPath \in StartPaths(fsys) : FindRepositoryConfig(fsys, startPath)

SpecFs == Init /\ [][NextFs]_vars

(***************************************************************************)
(* C25: fs.FindFileInParentDirs returns for every start path, absolute or  *)
(* relative.  Of the directories from the start directory up to the root,  *)
(* in this order, the first one whose os.Stat fails with another error     *)
(* than 'not exist' or which contains the file decides: the error is       *)
(* returned, or the absolute path of the file in that directory; when the  *)
(* root was searched and none decided, os.ErrNotExist is returned.         *)
(***************************************************************************)
C25_SearchEndsAtRoot ==
    ret.op = "FindRepositoryConfig" =>
        LET fsys == ret.arg.fsys
            start == Lookup(IF ret.arg.startPath.abs THEN 0 ELSE fsys.cwd, ret.arg.startPath.comps, 1)
            DepthOf(n) == start - (n - 1)
            Decides(n) == n = fsys.failAt \/ DepthOf(n) \in fsys.has
        IN IF \E n \in 1..(start + 1) : Decides(n)
           THEN LET n == CHOOSE m \in 1..(start + 1) : Decides(m) /\ \A j \in 1..(m - 1) : ~Decides(j)
                IN IF n = fsys.failAt
                   THEN ret.err.kind = "PathError" /\ ret.err.format = "input/output error"
                   ELSE /\ ~IsErr(ret.err)
                        /\ ret.arg.path = PathJoin(DirPath(DepthOf(n)), RepositoryCfgFile)
           ELSE ret.err = ErrNotExist

(***************************************************************************)
(* C26: OutputInclude.Validate returns for an Output fragment with an ID   *)
(* and an Output: Include.Validate of an Include with this one fragment    *)
(* returns nil when the Output passes Output.Validate, and otherwise the   *)
(* error of Output.Validate with the segment 'Output' in front of its      *)
(* path (Include.Validate prepends the segment of the fragment).           *)
(***************************************************************************)
C26_OutputIncludeValidateReturns ==
    (/\ ret.op = "Include.Validate"
     /\ ret.arg.Inputs = <<>> /\ ret.arg.Tasks = <<>> /\ Len(ret.arg.Outputs) = 1
     /\ ret.arg.Outputs[1].ID # "" /\ ret.arg.Outputs[1].Output # Nil) =>
        LET out == ret.arg.Outputs[1] IN
        /\ ~Crashes(ret.err)
        /\ ret.err = PrependValidationErrorPath(
                         PrependValidationErrorPath(OutputValidate(out.Output), <<"Output">>),
                         FragmentSegment("Outputs", out.ID))

(***************************************************************************)
(* C27: Task.Merge of a Task without an Input section that includes an     *)
(* Input fragment, or without an Output section that includes an Output    *)
(* fragment, all its includes being registered, returns without crash and  *)
(* without error, and the Input (Output) of the Task then has exactly the  *)
(* entries of the included fragments.                                      *)
(***************************************************************************)
C27_MergeIntoMissingSection ==
    [][(ret'.op = "Task.Merge"
        /\ Range(heap[ret'.arg].Includes) \subseteq (DOMAIN db.Inputs) \cup (DOMAIN db.Outputs)) =>
        LET old == heap[ret'.arg]
            new == heap'[ret'.arg]
            ins == SelectSeq(old.Includes, LAMBDA id : id \in DOMAIN db.Inputs)
            outs == SelectSeq(old.Includes, LAMBDA id : id \in DOMAIN db.Outputs)
        IN /\ (old.Input = Nil /\ ins # <<>>) =>
                 /\ ~IsErr(ret'.err)
                 /\ new.Input # Nil
                 /\ new.Input.Files.Paths = Flatten([i \in DOMAIN ins |-> db.Inputs[ins[i]].Input.Files.Paths])
                 /\ new.Input.GitFiles.Paths = Flatten([i \in DOMAIN ins |-> db.Inputs[ins[i]].Input.GitFiles.Paths])
                 /\ new.Input.GolangSources.Paths =
                        Flatten([i \in DOMAIN ins |-> db.Inputs[ins[i]].Input.GolangSources.Paths])
                 /\ new.Input.GolangSources.Environment =
                        Flatten([i \in DOMAIN ins |-> db.Inputs[ins[i]].Input.GolangSources.Environment])
           /\ (old.Output = Nil /\ outs # <<>>) =>
                 /\ ~IsErr(ret'.err)
                 /\ new.Output # Nil
                 /\ new.Output.File = Flatten([i \in DOMAIN outs |-> db.Outputs[outs[i]].Output.File])
                 /\ new.Output.DockerImage = Flatten([i \in DOMAIN outs |-> db.Outputs[outs[i]].Output.DockerImage])]_vars

(***************************************************************************)
(* C28: every include of a Task is merged once, whatever the sequence of   *)
(* operations: when Task.Merge has returned without error for a Task of a  *)
(* loaded App (a Task declared in the app file, or the Task of a           *)
(* Task-group that IncludeDB.Load resolved and App.Merge appended), every  *)
(* entry of an included fragment occurs in the list of the Task as often   *)
(* as in the fragments that Task.Includes lists.  (In the files of the     *)
(* model no entry of a Task's own lists is also an entry of a fragment.)   *)
(***************************************************************************)
C28_IncludesMergedOnce ==
    [][(ret'.op = "Task.Merge" /\ ~IsErr(ret'.err)) =>
        LET new == heap'[ret'.arg]
            inc == new.Includes
            Occ(x, list) == Cardinality({i \in DOMAIN list : list[i] = x})
            FromInputs(Field(_)) ==
                Flatten([i \in DOMAIN inc |->
                    IF inc[i] \in DOMAIN db.Inputs THEN Field(db.Inputs[inc[i]].Input) ELSE <<>>])
            FromOutputs(Field(_)) ==
                Flatten([i \in DOMAIN inc |->
                    IF inc[i] \in DOMAIN db.Outputs THEN Field(db.Outputs[inc[i]].Output) ELSE <<>>])
            Once(list, fragments) == \A x \in Range(fragments) : Occ(x, list) = Occ(x, fragments)
            FilesPaths(in) == in.Files.Paths
            GitFilesPaths(in) == in.GitFiles.Paths
            GolangPaths(in) == in.GolangSources.Paths
            GolangEnvironment(in) == in.GolangSources.Environment
            Files(out) == out.File
            DockerImages(out) == out.DockerImage
        IN /\ new.Input # Nil =>
                 /\ Once(new.Input.Files.Paths, FromInputs(FilesPaths))
                 /\ Once(new.Input.GitFiles.Paths, FromInputs(GitFilesPaths))
                 /\ Once(new.Input.GolangSources.Paths, FromInputs(GolangPaths))
                 /\ Once(new.Input.GolangSources.Environment, FromInputs(GolangEnvironment))
           /\ new.Output # Nil =>
                 /\ Once(new.Output.File, FromOutputs(Files))
                 /\ Once(new.Output.DockerImage, FromOutputs(DockerImages))]_vars

(***************************************************************************)
(* C29: a merge that fails leaves no trace: when Task.Merge returns the    *)
(* reference error for an include ID that is not registered, the Task is   *)
(* as it was before the call (the entries of the includes listed before    *)
(* the missing ID are not in its lists), and when App.Merge fails in       *)
(* AppLoader.Load no App is added.                                         *)
(***************************************************************************)
C29_FailedMergeChangesNothing ==
    [][/\ (ret'.op = "Task.Merge" /\ ret'.err.kind = "error") => heap'[ret'.arg] = heap[ret'.arg]
       /\ (ret'.op = "AppLoader.Load" /\ IsErr(ret'.err)) => apps' = apps]_vars

(***************************************************************************)
(* C30: merging keeps Input and Output valid: when the Input and the       *)
(* Output of a Task pass Input.Validate and Output.Validate and every      *)
(* fragment that the Task includes is valid (an Input fragment passes      *)
(* InputInclude.Validate; an Output fragment has an ID and an Output that  *)
(* passes Output.Validate), then after a Task.Merge that returned without  *)
(* error the Input and the Output of the Task pass Input.Validate and      *)
(* Output.Validate.                                                        *)
(***************************************************************************)
C30_MergeKeepsValid ==
    [][(/\ ret'.op = "Task.Merge" /\ ~IsErr(ret'.err)
        /\ heap[ret'.arg].Input # Nil /\ ~IsErr(InputValidate(heap[ret'.arg].Input))
        /\ heap[ret'.arg].Output # Nil /\ ~IsErr(OutputValidate(heap[ret'.arg].Output))
        /\ \A id \in Range(heap[ret'.arg].Includes) :
              IF id \in DOMAIN db.Inputs THEN ~IsErr(InputIncludeValidate(db.Inputs[id]))
              ELSE /\ db.Outputs[id].ID # "" /\ db.Outputs[id].Output # Nil
                   /\ ~IsErr(OutputValidate(db.Outputs[id].Output))) =>
          /\ ~IsErr(InputValidate(heap'[ret'.arg].Input))
          /\ ~IsErr(OutputValidate(heap'[ret'.arg].Output))]_vars

\* a valid Task without Go sources has received the Go paths and the Go
\* environment of a valid Input fragment and the entry of a valid Output fragment
C30_Witness ==
    /\ Returned("Task.Merge")
    /\ heap[ret.arg].Input = Input(<<MakefilePath>>, <<>>, <<"go">>, <<"GOFLAGS">>)
    /\ db.Inputs["a"].Input = GoEnvInput
    /\ heap[ret.arg].Output = OutputMerge(GoodOutput, ImageOutput)
    /\ ~IsErr(InputValidate(heap[ret.arg].Input))
    /\ ~IsErr(OutputValidate(heap[ret.arg].Output))

====
